---- MODULE Spec2Model ----
(***************************************************************************)
(* Model of overture_schema_pydantic/geometry.py: the Geometry value, the  *)
(* GeometryTypeConstraint and the JSON Schema fragments for GeoJSON.       *)
(*                                                                         *)
(* Python values are records tagged with their Python type in the field    *)
(* py; a raised exception is an outcome record whose field exc names the   *)
(* exception class ("none" when the call returned).                        *)
(***************************************************************************)
EXTENDS Integers, Sequences, FiniteSets, TLC

\* ------------------------------------------------------------------ bounds

\* coordinates are drawn from 0..MaxCoord
MaxCoord == 1
\* a multi-geometry or a collection has 1..MaxParts members
MaxParts == 2
\* GeometryTypeConstraint(*allowed_types) is called with 0..MaxArgs names
MaxArgs == 2
\* context["loc_prefix"] holds 0..MaxPrefix path elements
MaxPrefix == 1

\* ------------------------------------------------------- Python primitives

PyNone == [py |-> "NoneType"]
PyStr(s) == [py |-> "str", s |-> s]
PyInt(i) == [py |-> "int", i |-> i]

\* a call that returned v
Returned(v) == [exc |-> "none", ret |-> v]
\* a call that raised an exception of class c with the message parts m
Raised(c, m) == [exc |-> c, msg |-> m]

Range(s) == {s[i] : i \in DOMAIN s}

\* the sequences over S of length lo..hi
SeqsOf(S, lo, hi) == UNION {[1..n -> S] : n \in lo..hi}

\* ----------------------------------------------------------- geometry.py

GEOMETRY_TYPES ==
    << "GeometryCollection", "LineString", "Point", "Polygon",
       "MultiLineString", "MultiPoint", "MultiPolygon" >>

\* x in _GEOMETRY_TYPES, for a str x
InGeometryTypes(x) == \E i \in DOMAIN GEOMETRY_TYPES : GEOMETRY_TYPES[i] = x

\* str.__lt__ on the names that occur: the code-point order of these strings
StrOrder ==
    << "Blob", "GeometryCollection", "LineString", "LinearRing",
       "MultiLineString", "MultiPoint", "MultiPolygon", "Point", "Polygon",
       "Triangle", "point" >>

StrRank(s) == CHOOSE i \in DOMAIN StrOrder : StrOrder[i] = s

StrLess(a, b) == StrRank(a) < StrRank(b)

\* insert x into the sorted sequence s, after the elements not greater
RECURSIVE Insert(_, _)
Insert(x, s) ==
    IF s = <<>> THEN <<x>>
    ELSE IF StrLess(x, Head(s)) THEN <<x>> \o s
    ELSE <<Head(s)>> \o Insert(x, Tail(s))

\* sorted(a) for a sequence of str
RECURSIVE sorted(_)
sorted(a) ==
    IF a = <<>> THEN <<>>
    ELSE Insert(a[Len(a)], sorted(SubSeq(a, 1, Len(a) - 1)))

\* [item for item in a if item not in _GEOMETRY_TYPES]
RECURSIVE InvalidItems(_)
InvalidItems(a) ==
    IF a = <<>> THEN <<>>
    ELSE (IF InGeometryTypes(Head(a)) THEN <<>> ELSE <<Head(a)>>)
         \o InvalidItems(Tail(a))

\* _validate_geometry_types without the check for duplicates
validate_geometry_types_NoDuplicateCheck(a) ==
    IF a = <<>>
    THEN Raised("ValueError", [text |-> "allowed_types is empty"])
    ELSE IF ~(\A i \in DOMAIN a : InGeometryTypes(a[i]))
    THEN Raised("ValueError",
                [text |-> "allowed_types contains invalid values",
                 invalid |-> InvalidItems(a)])
    ELSE Returned(sorted(a))

\* _validate_geometry_types returning tuple(a) instead of tuple(sorted(a))
validate_geometry_types_Unsorted(a) ==
    IF a = <<>>
    THEN Raised("ValueError", [text |-> "allowed_types is empty"])
    ELSE IF ~(\A i \in DOMAIN a : InGeometryTypes(a[i]))
    THEN Raised("ValueError",
                [text |-> "allowed_types contains invalid values",
                 invalid |-> InvalidItems(a)])
    ELSE IF Cardinality(Range(a)) # Len(a)
    THEN Raised("ValueError", [text |-> "allowed_types contains duplicate(s)"])
    ELSE Returned(a)

\* GeometryTypeConstraint._validate_geometry_types
validate_geometry_types(a) ==
    IF a = <<>>
    THEN Raised("ValueError", [text |-> "allowed_types is empty"])
    ELSE IF ~(\A i \in DOMAIN a : InGeometryTypes(a[i]))
    THEN Raised("ValueError",
                [text |-> "allowed_types contains invalid values",
                 invalid |-> InvalidItems(a)])
    ELSE IF Cardinality(Range(a)) # Len(a)
    THEN Raised("ValueError", [text |-> "allowed_types contains duplicate(s)"])
    ELSE Returned(sorted(a))

\* GeometryTypeConstraint.__init__: the object made at address id, or the
\* exception _validate_geometry_types raised
NewGeometryTypeConstraint(id, a) ==
    LET r == validate_geometry_types(a) IN
    IF r.exc = "none"
    THEN Returned([py |-> "GeometryTypeConstraint", id |-> id,
                   allowed_types |-> r.ret])
    ELSE r

\* object.__eq__, which GeometryTypeConstraint inherits: identity
ObjectEq(a, b) == a.id = b.id

\* _ALL_GEOMETRY_ALLOWED, made when the module is imported
ALL_GEOMETRY_ALLOWED == NewGeometryTypeConstraint(0, GEOMETRY_TYPES).ret


\* ------------------------------------------- JSON values given to shapely

\* a list (or tuple) of numbers, of positions, of lists of positions, ...:
\* depth is how deep the lists nest, and the field holding the items is
\* named after it
PyList1(v) == [py |-> "list", depth |-> 1, n1 |-> v]
PyList2(v) == [py |-> "list", depth |-> 2, n2 |-> v]
PyList3(v) == [py |-> "list", depth |-> 3, n3 |-> v]
PyList4(v) == [py |-> "list", depth |-> 4, n4 |-> v]
\* a list of dicts
PyObjs(v) == [py |-> "list", depth |-> 0, objs |-> v]
PyDict(d) == [py |-> "dict", d |-> d]

\* shapely.geometry.geo._is_coordinates_empty: no number anywhere inside
is_coordinates_empty(c) ==
    CASE c.py # "list" -> c.py = "NoneType"
      [] c.depth = 0 -> c.objs = <<>>
      [] c.depth = 1 -> c.n1 = <<>>
      [] c.depth = 2 -> \A i \in DOMAIN c.n2 : c.n2[i] = <<>>
      [] c.depth = 3 -> \A i \in DOMAIN c.n3 : \A j \in DOMAIN c.n3[i] :
                            c.n3[i][j] = <<>>
      [] c.depth = 4 -> \A i \in DOMAIN c.n4 : \A j \in DOMAIN c.n4[i] :
                            \A k \in DOMAIN c.n4[i][j] : c.n4[i][j][k] = <<>>

\* ------------------------------------------------ shapely geometry objects

Point(xy) == [geom_type |-> "Point", xy |-> xy]
LineString(line) == [geom_type |-> "LineString", line |-> line]
LinearRing(ring) == [geom_type |-> "LinearRing", ring |-> ring]
Polygon(shell, holes) ==
    [geom_type |-> "Polygon", exterior |-> shell, interiors |-> holes]
Multi(t, geoms) == [geom_type |-> t, geoms |-> geoms]

\* the empty geometry of a type (shapely's _empty_shape_for_no_coordinates)
EmptyShape(t) ==
    CASE t = "Point" -> Point(<<>>)
      [] t = "LineString" -> LineString(<<>>)
      [] t = "LinearRing" -> LinearRing(<<>>)
      [] t = "Polygon" -> Polygon(<<>>, <<>>)
      [] OTHER -> Multi(t, <<>>)

\* a position is 2 or 3 numbers
IsPosition(p) == Len(p) \in {2, 3}

\* a linear ring is closed implicitly: the first position is appended
\* when the last differs from it
CloseRing(r) == IF r[1] = r[Len(r)] THEN r ELSE Append(r, r[1])

\* a ring shapely accepts: positions, at least 4 of them once closed
IsRing(r) ==
    /\ r # <<>>
    /\ \A i \in DOMAIN r : IsPosition(r[i])
    /\ Len(CloseRing(r)) >= 4

\* the rings [c[0], c[1:]] of one polygon
PolygonOf(c) ==
    Polygon(CloseRing(c[1]),
            [i \in 1..(Len(c) - 1) |-> CloseRing(c[i + 1])])

\* some exception shapely raises on coordinates of the wrong structure
ShapelyError(t) == Raised("Exception", [text |-> "shapely", type |-> t])

\* the GeoJSON type name that str.lower() maps to the same string as s
\* ("" when there is none): shape() compares ob["type"].lower()
SameLower(s) ==
    IF s = "point" THEN "Point"
    ELSE IF InGeometryTypes(s) \/ s = "LinearRing" THEN s
    ELSE ""

\* shapely.geometry.shape(ob) for the items ob of a dict
RECURSIVE shape(_)
shape(ob) ==
    LET t == SameLower(ob.type.s)
        has == "coordinates" \in DOMAIN ob
        c == ob.coordinates
    IN
    IF ~("type" \in DOMAIN ob /\ ob.type.py = "str")
    THEN Raised("AttributeError", [obj |-> "NoneType", name |-> "lower"])
    ELSE IF t = "" THEN Raised("GeometryTypeError", [type |-> ob.type])
    ELSE IF has /\ is_coordinates_empty(c) THEN Returned(EmptyShape(t))
    ELSE IF t = "GeometryCollection"
    THEN LET gs == IF "geometries" \in DOMAIN ob
                   THEN ob.geometries.objs ELSE <<>>
             rs == [i \in DOMAIN gs |-> shape(gs[i].d)]
         IN IF \E i \in DOMAIN rs : rs[i].exc # "none"
            THEN rs[CHOOSE i \in DOMAIN rs :
                       /\ rs[i].exc # "none"
                       /\ \A j \in 1..(i - 1) : rs[j].exc = "none"]
            ELSE Returned(Multi(t, [i \in DOMAIN rs |-> rs[i].ret]))
    ELSE IF ~has THEN Raised("KeyError", [key |-> "coordinates"])
    ELSE IF c.py # "list" THEN ShapelyError(t)
    ELSE CASE t = "Point" ->
                IF c.depth = 1 /\ IsPosition(c.n1)
                THEN Returned(Point(c.n1)) ELSE ShapelyError(t)
           [] t = "LineString" ->
                IF /\ c.depth = 2
                   /\ Len(c.n2) >= 2
                   /\ \A i \in DOMAIN c.n2 : IsPosition(c.n2[i])
                THEN Returned(LineString(c.n2)) ELSE ShapelyError(t)
           [] t = "Polygon" ->
                IF c.depth = 3 /\ \A i \in DOMAIN c.n3 : IsRing(c.n3[i])
                THEN Returned(PolygonOf(c.n3)) ELSE ShapelyError(t)
           [] t = "MultiPoint" ->
                IF c.depth = 2 /\ \A i \in DOMAIN c.n2 : IsPosition(c.n2[i])
                THEN Returned(Multi(t, [i \in DOMAIN c.n2 |-> Point(c.n2[i])]))
                ELSE ShapelyError(t)
           [] t = "MultiLineString" ->
                IF /\ c.depth = 3
                   /\ \A i \in DOMAIN c.n3 :
                        /\ Len(c.n3[i]) >= 2
                        /\ \A j \in DOMAIN c.n3[i] : IsPosition(c.n3[i][j])
                THEN Returned(Multi(t, [i \in DOMAIN c.n3 |->
                                           LineString(c.n3[i])]))
                ELSE ShapelyError(t)
           [] t = "LinearRing" ->
                IF c.depth = 2 /\ IsRing(c.n2)
                THEN Returned(LinearRing(CloseRing(c.n2))) ELSE ShapelyError(t)
           [] t = "MultiPolygon" ->
                IF /\ c.depth = 4
                   /\ \A i \in DOMAIN c.n4 :
                        /\ c.n4[i] # <<>>
                        /\ \A j \in DOMAIN c.n4[i] : IsRing(c.n4[i][j])
                THEN Returned(Multi(t, [i \in DOMAIN c.n4 |->
                                           PolygonOf(c.n4[i])]))
                ELSE ShapelyError(t)

\* the rings of a polygon as GeoJSON lists them: exterior, then interiors
RingsOf(p) == <<p.exterior>> \o p.interiors

\* shapely.geometry.mapping(ob): ob.__geo_interface__
RECURSIVE mapping(_)
mapping(ob) ==
    LET t == ob.geom_type IN
    CASE t = "Point" ->
           PyDict([type |-> PyStr(t), coordinates |-> PyList1(ob.xy)])
      [] t = "LineString" ->
           PyDict([type |-> PyStr(t), coordinates |-> PyList2(ob.line)])
      [] t = "LinearRing" ->
           PyDict([type |-> PyStr(t), coordinates |-> PyList2(ob.ring)])
      [] t = "Polygon" ->
           PyDict([type |-> PyStr(t),
                   coordinates |-> IF ob.exterior = <<>> THEN PyList1(<<>>)
                                   ELSE PyList3(RingsOf(ob))])
      [] t = "MultiPoint" ->
           PyDict([type |-> PyStr(t),
                   coordinates |->
                       PyList2([i \in DOMAIN ob.geoms |-> ob.geoms[i].xy])])
      [] t = "MultiLineString" ->
           PyDict([type |-> PyStr(t),
                   coordinates |->
                       PyList3([i \in DOMAIN ob.geoms |-> ob.geoms[i].line])])
      [] t = "MultiPolygon" ->
           PyDict([type |-> PyStr(t),
                   coordinates |->
                       PyList4([i \in DOMAIN ob.geoms |->
                                   RingsOf(ob.geoms[i])])])
      [] t = "GeometryCollection" ->
           PyDict([type |-> PyStr(t),
                   geometries |->
                       PyObjs([i \in DOMAIN ob.geoms |->
                                  mapping(ob.geoms[i])])])

\* ------------------------------------------------------------ Geometry

\* Geometry.__init__
Geometry(geom) == [py |-> "Geometry", geom |-> geom]

\* the attributes a Geometry instance has: geom, and what the class defines
GeometryAttributes ==
    { "geom", "__init__", "__eq__", "__hash__", "__repr__", "__str__",
      "to_geo_json", "from_geo_json", "__get_pydantic_core_schema__",
      "__get_pydantic_json_schema__" }

\* Geometry.__eq__
GeometryEq(self, other) == other.py = "Geometry" /\ self.geom = other.geom

\* Geometry.to_geo_json
to_geo_json(self) == mapping(self.geom)

\* from_geo_json raising ValueError, not TypeError, on a value that is no dict
from_geo_json_WrongClass(value) ==
    IF value.py # "dict"
    THEN Raised("ValueError", [text |-> "value must be a dict", type |-> value.py])
    ELSE LET type_ == IF "type" \in DOMAIN value.d THEN value.d.type ELSE PyNone
         IN IF ~(type_.py = "str" /\ InGeometryTypes(type_.s))
            THEN Raised("ValueError",
                        [text |-> "allowed_types contains invalid value",
                         value |-> type_])
            ELSE LET r == shape(value.d) IN
                 IF r.exc = "none" THEN Returned(Geometry(r.ret)) ELSE r

\* from_geo_json accepting only the six kinds that have "coordinates"
from_geo_json_NoCollection(value) ==
    IF value.py # "dict"
    THEN Raised("TypeError", [text |-> "value must be a dict", type |-> value.py])
    ELSE LET type_ == IF "type" \in DOMAIN value.d THEN value.d.type ELSE PyNone
         IN IF ~(/\ type_.py = "str"
                 /\ InGeometryTypes(type_.s)
                 /\ type_.s # "GeometryCollection")
            THEN Raised("ValueError",
                        [text |-> "allowed_types contains invalid value",
                         value |-> type_])
            ELSE LET r == shape(value.d) IN
                 IF r.exc = "none" THEN Returned(Geometry(r.ret)) ELSE r

\* Geometry.from_geo_json
from_geo_json(value) ==
    IF value.py # "dict"
    THEN Raised("TypeError", [text |-> "value must be a dict", type |-> value.py])
    ELSE LET type_ == IF "type" \in DOMAIN value.d THEN value.d.type ELSE PyNone
         IN IF ~(type_.py = "str" /\ InGeometryTypes(type_.s))
            THEN Raised("ValueError",
                        [text |-> "allowed_types contains invalid value",
                         value |-> type_])
            ELSE LET r == shape(value.d) IN
                 IF r.exc = "none" THEN Returned(Geometry(r.ret)) ELSE r

\* Geometry.__str__: return self.wkt, an attribute looked up on the Geometry
Geometry__str__(self) ==
    IF "wkt" \in GeometryAttributes
    THEN Returned([py |-> "str", wkt |-> self.geom])
    ELSE Raised("AttributeError", [obj |-> self.py, name |-> "wkt"])

\* the serializer Geometry registers: lambda v: v.to_geojson()
serializer(v) ==
    IF "to_geojson" \in GeometryAttributes
    THEN Returned(to_geo_json(v))
    ELSE Raised("AttributeError", [obj |-> v.py, name |-> "to_geojson"])


\* ------------------------------------------------- validation (pydantic)

\* bool(x) of None, a dict or a tuple
Truthy(x) == x # PyNone /\ x # PyDict(<<>>) /\ x # <<>>

\* context = info.context or {}; context.get("loc_prefix", ()) + ("value",)
LocOf(info) ==
    LET context == IF Truthy(info.context) THEN info.context.d ELSE <<>>
        prefix == IF "loc_prefix" \in DOMAIN context
                  THEN context.loc_prefix ELSE <<>>
    IN prefix \o <<"value">>

\* ValidationError.from_exception_data(title, [InitErrorDetails(...)])
ValidationError(title, loc, input, error) ==
    Raised("ValidationError",
           [title |-> title,
            line_errors |-> << [type |-> "value_error", loc |-> loc,
                                input |-> input, ctx |-> [error |-> error]] >>])

\* validate testing the kind against _GEOMETRY_TYPES, not self.allowed_types
validate_AnyKnownKind(self, value, info) ==
    LET geometry_type == value.geom.geom_type IN
    IF ~InGeometryTypes(geometry_type)
    THEN ValidationError("GeometryTypeConstraint", LocOf(info), value,
                         [text |-> "geometry type not allowed",
                          geometry_type |-> geometry_type,
                          allowed |-> self.allowed_types])
    ELSE Returned(PyNone)

\* GeometryTypeConstraint.validate
validate(self, value, info) ==
    LET geometry_type == value.geom.geom_type IN
    IF geometry_type \notin Range(self.allowed_types)
    THEN ValidationError("GeometryTypeConstraint", LocOf(info), value,
                         [text |-> "geometry type not allowed",
                          geometry_type |-> geometry_type,
                          allowed |-> self.allowed_types])
    ELSE Returned(PyNone)

\* the validator function of Geometry.__get_pydantic_core_schema__
validator(value, info) ==
    LET r == from_geo_json(value) IN
    IF r.exc = "none" THEN r
    ELSE ValidationError("Geometry", LocOf(info), value,
                         [text |-> "invalid geometry value", e |-> r])

\* the classes a usage site may declare, and issubclass(source, Geometry);
\* a source that is no class makes issubclass itself raise TypeError
SourceTypes == {"Geometry", "GeometrySubclass", "str", "dict", "Optional[Geometry]"}
IsSubclassOfGeometry(source) == source \in {"Geometry", "GeometrySubclass"}

\* __get_pydantic_core_schema__ without the issubclass check
GeometryTypeConstraint__get_pydantic_core_schema___Unchecked(self, source) ==
    Returned([type |-> "function-after", function |-> "validate",
              self |-> self,
              schema |-> [type |-> "function-plain", function |-> "validator"]])

\* GeometryTypeConstraint.__get_pydantic_core_schema__
GeometryTypeConstraint__get_pydantic_core_schema__(self, source) ==
    IF ~IsSubclassOfGeometry(source)
    THEN Raised("TypeError",
                [text |-> "GeometryTypeConstraint can only be applied to Geometry",
                 source |-> source])
    ELSE Returned([type |-> "function-after", function |-> "validate",
                   self |-> self,
                   schema |-> [type |-> "function-plain",
                               function |-> "validator"]])

\* ------------------------------------------------- JSON Schema fragments

BBOX_JSON_SCHEMA ==
    [type |-> "array", minItems |-> 4, items |-> [type |-> "number"]]

POINT_COORDINATES_JSON_SCHEMA ==
    [type |-> "array", minItems |-> 2, items |-> [type |-> "number"]]

LINE_STRING_COORDINATES_JSON_SCHEMA ==
    [type |-> "array", minItems |-> 2, items |-> POINT_COORDINATES_JSON_SCHEMA]

MULTI_LINE_STRING_COORDINATES_JSON_SCHEMA ==
    [type |-> "array", minItems |-> 1,
     items |-> LINE_STRING_COORDINATES_JSON_SCHEMA]

MULTI_POINT_COORDINATES_JSON_SCHEMA ==
    [type |-> "array", minItems |-> 1, items |-> POINT_COORDINATES_JSON_SCHEMA]

LINEAR_RING_COORDINATES_JSON_SCHEMA ==
    [type |-> "array", minItems |-> 4, items |-> POINT_COORDINATES_JSON_SCHEMA]

POLYGON_COORDINATES_JSON_SCHEMA ==
    [type |-> "array", minItems |-> 1,
     items |-> LINEAR_RING_COORDINATES_JSON_SCHEMA]

MULTI_POLYGON_COORDINATES_JSON_SCHEMA ==
    [type |-> "array", minItems |-> 1,
     items |-> POLYGON_COORDINATES_JSON_SCHEMA]

\* geometry_json_schema(geometry_type, coordinates=None, geometries=None)
geometry_json_schema(geometry_type, coordinates, geometries) ==
    LET properties0 ==
            [type |-> [type |-> "string", const |-> geometry_type],
             bbox |-> BBOX_JSON_SCHEMA]
        required1 == IF Truthy(coordinates) THEN <<"type", "coordinates">>
                     ELSE <<"type">>
        properties1 == IF Truthy(coordinates)
                       THEN properties0 @@ [coordinates |-> coordinates]
                       ELSE properties0
        required2 == IF Truthy(geometries) THEN Append(required1, "geometries")
                     ELSE required1
        properties2 == IF Truthy(geometries)
                       THEN properties1 @@ [geometries |-> geometries]
                       ELSE properties1
    IN [type |-> "object", required |-> required2, properties |-> properties2]

LINE_STRING_GEOMETRY_JSON_SCHEMA ==
    geometry_json_schema("LineString", LINE_STRING_COORDINATES_JSON_SCHEMA, PyNone)

POINT_GEOMETRY_JSON_SCHEMA ==
    geometry_json_schema("Point", POINT_COORDINATES_JSON_SCHEMA, PyNone)

POLYGON_GEOMETRY_JSON_SCHEMA ==
    geometry_json_schema("Polygon", POLYGON_COORDINATES_JSON_SCHEMA, PyNone)

MULTI_LINE_STRING_GEOMETRY_JSON_SCHEMA ==
    geometry_json_schema("MultiLineString",
                         MULTI_LINE_STRING_COORDINATES_JSON_SCHEMA, PyNone)

MULTI_POINT_GEOMETRY_JSON_SCHEMA ==
    geometry_json_schema("MultiPoint", MULTI_POINT_COORDINATES_JSON_SCHEMA, PyNone)

MULTI_POLYGON_GEOMETRY_JSON_SCHEMA ==
    geometry_json_schema("MultiPolygon", MULTI_POLYGON_COORDINATES_JSON_SCHEMA,
                         PyNone)

GEOMETRY_COLLECTION_JSON_SCHEMA ==
    geometry_json_schema(
        "GeometryCollection", PyNone,
        [oneOf |-> << LINE_STRING_GEOMETRY_JSON_SCHEMA,
                      POINT_GEOMETRY_JSON_SCHEMA,
                      POLYGON_GEOMETRY_JSON_SCHEMA,
                      MULTI_LINE_STRING_GEOMETRY_JSON_SCHEMA,
                      MULTI_POINT_GEOMETRY_JSON_SCHEMA,
                      MULTI_POLYGON_GEOMETRY_JSON_SCHEMA >>])

\* the lookup table _GEOMETRY_JSON_SCHEMA
GEOMETRY_JSON_SCHEMA ==
    [GeometryCollection |-> GEOMETRY_COLLECTION_JSON_SCHEMA,
     LineString |-> LINE_STRING_GEOMETRY_JSON_SCHEMA,
     Point |-> POINT_GEOMETRY_JSON_SCHEMA,
     Polygon |-> POLYGON_GEOMETRY_JSON_SCHEMA,
     MultiLineString |-> MULTI_LINE_STRING_GEOMETRY_JSON_SCHEMA,
     MultiPoint |-> MULTI_POINT_GEOMETRY_JSON_SCHEMA,
     MultiPolygon |-> MULTI_POLYGON_GEOMETRY_JSON_SCHEMA]

\* __get_pydantic_json_schema__ wrapping a single fragment in oneOf too
GeometryTypeConstraint__get_pydantic_json_schema___AlwaysUnion(self) ==
    [oneOf |-> [i \in DOMAIN self.allowed_types |->
                   GEOMETRY_JSON_SCHEMA[self.allowed_types[i]]]]

\* GeometryTypeConstraint.__get_pydantic_json_schema__
GeometryTypeConstraint__get_pydantic_json_schema__(self) ==
    IF Len(self.allowed_types) = 1
    THEN GEOMETRY_JSON_SCHEMA[self.allowed_types[1]]
    ELSE [oneOf |-> [i \in DOMAIN self.allowed_types |->
                        GEOMETRY_JSON_SCHEMA[self.allowed_types[i]]]]

\* Geometry.__get_pydantic_json_schema__
Geometry__get_pydantic_json_schema__ ==
    GeometryTypeConstraint__get_pydantic_json_schema__(ALL_GEOMETRY_ALLOWED)


\* ------------------------------------------------------------- inputs

Coord == 0..MaxCoord
Positions == {<<x, y>> : x \in Coord, y \in Coord}
Origin == <<0, 0>>

Lines == {<<a, b>> : a \in Positions, b \in Positions}
\* the far ends of the members of a multi-geometry
Corners == {<<0, MaxCoord>>, <<MaxCoord, MaxCoord>>}
LinesFromOrigin == {<<Origin, b>> : b \in Corners}

\* a ring through a and b, left open: its third position never equals a
Tri(a, b) == <<a, b, <<(a[1] + 1) % (MaxCoord + 1), a[2]>> >>
OpenRings == {Tri(a, b) : a \in Positions, b \in Positions}
ClosedRings == {CloseRing(r) : r \in OpenRings}
RingsFromOrigin == {CloseRing(Tri(Origin, b)) : b \in Corners}
\* the hole paired with a shell
HoleOf(r) == CloseRing(Tri(r[2], r[1]))

\* the shapely objects a Geometry is constructed from directly
PointShapes == {Point(p) : p \in Positions}
LineShapes == {LineString(l) : l \in Lines}
PolygonShapes ==
    {Polygon(r, <<>>) : r \in ClosedRings}
    \cup {Polygon(r, <<HoleOf(r)>>) : r \in ClosedRings}
MultiPointShapes ==
    {Multi("MultiPoint", m) : m \in SeqsOf(PointShapes, 1, MaxParts)}
MultiLineShapes ==
    {Multi("MultiLineString", m) :
        m \in SeqsOf({LineString(l) : l \in LinesFromOrigin}, 1, MaxParts)}
MultiPolygonShapes ==
    {Multi("MultiPolygon", m) :
        m \in SeqsOf({Polygon(r, <<>>) : r \in RingsFromOrigin}, 1, MaxParts)}
CollectionMembers ==
    { Point(Origin),
      LineString(<<Origin, <<MaxCoord, MaxCoord>> >>),
      Polygon(CloseRing(Tri(Origin, Origin)), <<>>),
      LinearRing(CloseRing(Tri(Origin, Origin))),
      Multi("GeometryCollection", <<Point(Origin)>>) }
CollectionShapes ==
    {Multi("GeometryCollection", m) : m \in SeqsOf(CollectionMembers, 1, MaxParts)}
EmptyShapes == {EmptyShape(GEOMETRY_TYPES[i]) : i \in DOMAIN GEOMETRY_TYPES}
RingShapes == {LinearRing(r) : r \in RingsFromOrigin}

\* one GeoJSON object: {"type": t, "coordinates": c}
GeoJson(t, c) == PyDict([type |-> PyStr(t), coordinates |-> c])

\* the GeoJSON objects given to decode, kind by kind
PointDicts == {GeoJson("Point", PyList1(p)) : p \in Positions \cup {<<>>}}
LineDicts == {GeoJson("LineString", PyList2(l)) : l \in Lines}
PolygonDicts ==
    {GeoJson("Polygon", PyList3(<<r>>)) : r \in OpenRings \cup ClosedRings}
    \cup {GeoJson("Polygon", PyList3(<<r, HoleOf(r)>>)) : r \in ClosedRings}
MultiPointDicts ==
    {GeoJson("MultiPoint", PyList2(m)) : m \in SeqsOf(Positions, 1, MaxParts)}
MultiLineDicts ==
    {GeoJson("MultiLineString", PyList3(m)) :
        m \in SeqsOf(LinesFromOrigin, 1, MaxParts)}
MultiPolygonDicts ==
    {GeoJson("MultiPolygon", PyList4(m)) :
        m \in SeqsOf({<<r>> : r \in RingsFromOrigin}, 1, MaxParts)}
CollectionMemberDicts ==
    { GeoJson("Point", PyList1(Origin)),
      GeoJson("LineString", PyList2(<<Origin, <<MaxCoord, MaxCoord>> >>)),
      GeoJson("Polygon", PyList3(<<Tri(Origin, Origin)>>)),
      GeoJson("point", PyList1(Origin)),
      GeoJson("Triangle", PyList1(Origin)),
      PyDict([type |-> PyStr("GeometryCollection"),
              geometries |-> PyObjs(<<GeoJson("Point", PyList1(Origin))>>)]) }
CollectionDicts ==
    {PyDict([type |-> PyStr("GeometryCollection"), geometries |-> PyObjs(m)]) :
        m \in SeqsOf(CollectionMemberDicts, 0, MaxParts)}

\* what a "type" key may hold besides the seven names
OtherTypes == {PyStr("Triangle"), PyStr("point"), PyStr("LinearRing"), PyNone, PyInt(1)}

\* dicts whose "type" is missing or unrecognized, and dicts of a recognized
\* type whose coordinates are missing or have the wrong structure
DefectDicts ==
    {PyDict([type |-> t, coordinates |-> PyList1(Origin)]) : t \in OtherTypes}
    \cup {PyDict(<<>>), PyDict([coordinates |-> PyList1(Origin)])}
    \cup {PyDict([type |-> PyStr(GEOMETRY_TYPES[i])]) : i \in DOMAIN GEOMETRY_TYPES}
    \cup {GeoJson(GEOMETRY_TYPES[i], PyList1(<<0>>)) : i \in DOMAIN GEOMETRY_TYPES}
    \cup { GeoJson("Point", PyList2(<<Origin>>)),
           GeoJson("LineString", PyList2(<<Origin>>)),
           GeoJson("Polygon", PyList3(<< <<Origin, Origin>> >>)) }

\* values that are no dict
NonDicts == {PyStr("not a map"), PyNone, PyInt(1), PyList1(Origin)}

\* the values a field is validated on: one of each kind, and the defects
FieldValues ==
    { GeoJson("Point", PyList1(Origin)),
      GeoJson("LineString", PyList2(<<Origin, <<MaxCoord, MaxCoord>> >>)),
      GeoJson("Polygon", PyList3(<<Tri(Origin, Origin)>>)),
      GeoJson("MultiPoint", PyList2(<<Origin>>)),
      GeoJson("MultiLineString", PyList3(<< <<Origin, <<MaxCoord, MaxCoord>> >> >>)),
      GeoJson("MultiPolygon", PyList4(<< <<Tri(Origin, Origin)>> >>)),
      PyDict([type |-> PyStr("GeometryCollection"),
              geometries |-> PyObjs(<<GeoJson("Point", PyList1(Origin))>>)]),
      GeoJson("Triangle", PyList1(Origin)),
      PyDict([type |-> PyStr("Point")]),
      PyStr("not a map") }

\* the Geometry values validate is called on directly: one of each kind
KindShapes ==
    { Point(Origin),
      LineString(<<Origin, <<MaxCoord, MaxCoord>> >>),
      Polygon(CloseRing(Tri(Origin, Origin)), <<>>),
      Multi("MultiPoint", <<Point(Origin)>>),
      Multi("MultiLineString", <<LineString(<<Origin, <<MaxCoord, MaxCoord>> >>)>>),
      Multi("MultiPolygon", <<Polygon(CloseRing(Tri(Origin, Origin)), <<>>)>>),
      Multi("GeometryCollection", <<Point(Origin)>>),
      LinearRing(CloseRing(Tri(Origin, Origin))) }

\* ValidationInfo: context is None, an empty dict, a dict without
\* "loc_prefix", or a dict whose "loc_prefix" is a tuple of field names
Infos ==
    { [context |-> PyNone], [context |-> PyDict(<<>>)],
      [context |-> PyDict([strict |-> PyInt(1)])] }
    \cup {[context |-> PyDict([loc_prefix |-> l])] :
            l \in SeqsOf({"geometry", "features"}, 0, MaxPrefix)}

\* the names a constraint is constructed from
ArgNames == Range(GEOMETRY_TYPES) \cup {"Blob"}
ArgLists == SeqsOf(ArgNames, 0, MaxArgs)
\* the names the second constraint is constructed from
ArgNames2 == {"Point", "MultiPoint", "Polygon", "Blob"}
ArgLists2 == SeqsOf(ArgNames2, 0, MaxArgs)

\* ---------------------------------------------------------------- state

VARIABLES
    pc,      \* where the program is
    value,   \* the raw value given to decode
    g,       \* the Geometry at hand (None before there is one)
    enc,     \* to_geo_json(g)
    out,     \* the outcome of the last call: what it returned or raised
    args,    \* the arguments of the last GeometryTypeConstraint(...) call
    c1,      \* the first constraint constructed (None before)
    c2,      \* the second constraint constructed (None before)
    schema,  \* the JSON Schema emitted for c1, or for Geometry
    schema2, \* the JSON Schema emitted for c2
    source,  \* the declared type of the usage site c1 is attached to
    info,    \* the ValidationInfo of the validation in progress
    steps    \* the validator functions run on the field so far

vars == <<pc, value, g, enc, out, args, c1, c2, schema, schema2, source, info, steps>>

Init ==
    /\ pc = "idle"
    /\ value = PyNone
    /\ g = PyNone
    /\ enc = PyNone
    /\ out = PyNone
    /\ args = <<>>
    /\ c1 = PyNone
    /\ c2 = PyNone
    /\ schema = PyNone
    /\ schema2 = PyNone
    /\ source = ""
    /\ info = PyNone
    /\ steps = <<>>

\* ------------------------------------------------- Geometry: the codec

\* Geometry.from_geo_json(v)
Decode(v) ==
    /\ pc = "idle"
    /\ value' = v
    /\ out' = from_geo_json(v)
    /\ g' = IF out'.exc = "none" THEN out'.ret ELSE PyNone
    /\ pc' = IF out'.exc = "none" THEN "decoded" ELSE "decode_failed"
    /\ UNCHANGED <<enc, args, c1, c2, schema, schema2, source, info, steps>>

\* Geometry(geom)
Construct(geom) ==
    /\ pc = "idle"
    /\ g' = Geometry(geom)
    /\ pc' = "decoded"
    /\ UNCHANGED <<value, enc, out, args, c1, c2, schema, schema2, source, info, steps>>

\* g.to_geo_json()
Encode ==
    /\ pc = "decoded"
    /\ enc' = to_geo_json(g)
    /\ pc' = "encoded"
    /\ UNCHANGED <<value, g, out, args, c1, c2, schema, schema2, source, info, steps>>

\* Geometry.from_geo_json(g.to_geo_json())
Redecode ==
    /\ pc = "encoded"
    /\ out' = from_geo_json(enc)
    /\ pc' = "redecoded"
    /\ UNCHANGED <<value, g, enc, args, c1, c2, schema, schema2, source, info, steps>>

\* str(g)
Str ==
    /\ pc = "decoded"
    /\ out' = Geometry__str__(g)
    /\ pc' = "rendered"
    /\ UNCHANGED <<value, g, enc, args, c1, c2, schema, schema2, source, info, steps>>

\* the registered serializer called on g, next to g.to_geo_json()
Serialize ==
    /\ pc = "decoded"
    /\ out' = serializer(g)
    /\ enc' = to_geo_json(g)
    /\ pc' = "serialized"
    /\ UNCHANGED <<value, g, args, c1, c2, schema, schema2, source, info, steps>>

\* Geometry.__get_pydantic_json_schema__
GeometrySchema ==
    /\ pc = "idle"
    /\ schema' = Geometry__get_pydantic_json_schema__
    /\ pc' = "emitted_geometry"
    /\ UNCHANGED <<value, g, enc, out, args, c1, c2, schema2, source, info, steps>>

\* ------------------------------------------- GeometryTypeConstraint

\* c1 = GeometryTypeConstraint(*a)
Construct1(a) ==
    /\ pc = "idle"
    /\ args' = a
    /\ out' = NewGeometryTypeConstraint(1, a)
    /\ c1' = IF out'.exc = "none" THEN out'.ret ELSE PyNone
    /\ pc' = IF out'.exc = "none" THEN "c1" ELSE "c1_failed"
    /\ UNCHANGED <<value, g, enc, c2, schema, schema2, source, info, steps>>

\* c2 = GeometryTypeConstraint(*a)
Construct2(a) ==
    /\ pc = "c1"
    /\ args' = a
    /\ out' = NewGeometryTypeConstraint(2, a)
    /\ c2' = IF out'.exc = "none" THEN out'.ret ELSE PyNone
    /\ pc' = IF out'.exc = "none" THEN "c2" ELSE "c2_failed"
    /\ UNCHANGED <<value, g, enc, c1, schema, schema2, source, info, steps>>

\* c1 == c2
Compare ==
    /\ pc = "c2"
    /\ out' = Returned(ObjectEq(c1, c2))
    /\ pc' = "compared"
    /\ UNCHANGED <<value, g, enc, args, c1, c2, schema, schema2, source, info, steps>>

\* c1.__get_pydantic_json_schema__(...)
EmitSchema ==
    /\ pc = "c1"
    /\ schema' = GeometryTypeConstraint__get_pydantic_json_schema__(c1)
    /\ args' = <<>>
    /\ pc' = "emitted"
    /\ UNCHANGED <<value, g, enc, out, c1, c2, schema2, source, info, steps>>

\* the JSON Schema of c1 and of c2
EmitBoth ==
    /\ pc = "c2"
    /\ schema' = GeometryTypeConstraint__get_pydantic_json_schema__(c1)
    /\ schema2' = GeometryTypeConstraint__get_pydantic_json_schema__(c2)
    /\ pc' = "emitted_both"
    /\ UNCHANGED <<value, g, enc, out, args, c1, c2, source, info, steps>>

\* c1.validate(Geometry(geom), i)
Validate(geom, i) ==
    /\ pc = "c1"
    /\ g' = Geometry(geom)
    /\ info' = i
    /\ out' = validate(c1, g', i)
    /\ args' = <<>>
    /\ pc' = "validated"
    /\ UNCHANGED <<value, enc, c1, c2, schema, schema2, source, steps>>

\* ------------------------------------ a field: Annotated[source, c1]

\* c1.__get_pydantic_core_schema__(source, handler), when the schema is built
Attach(s) ==
    /\ pc = "c1"
    /\ source' = s
    /\ out' = GeometryTypeConstraint__get_pydantic_core_schema__(c1, s)
    /\ args' = <<>>
    /\ pc' = IF out'.exc = "none" THEN "attached" ELSE "attach_failed"
    /\ UNCHANGED <<value, g, enc, c1, c2, schema, schema2, info, steps>>

\* the inner schema of the function-after validator: Geometry's validator
FieldDecode(v, i) ==
    /\ pc = "attached"
    /\ value' = v
    /\ info' = i
    /\ out' = validator(v, i)
    /\ steps' = Append(steps, "validator")
    /\ g' = IF out'.exc = "none" THEN out'.ret ELSE PyNone
    /\ pc' = IF out'.exc = "none" THEN "field_decoded" ELSE "field_rejected"
    /\ UNCHANGED <<enc, args, c1, c2, schema, schema2, source>>

\* the after function, run on what the inner schema returned
FieldValidate ==
    /\ pc = "field_decoded"
    /\ out' = validate(c1, g, info)
    /\ steps' = Append(steps, "validate")
    /\ pc' = IF out'.exc = "none" THEN "field_accepted" ELSE "field_rejected"
    /\ UNCHANGED <<value, g, enc, args, c1, c2, schema, schema2, source, info>>

Next ==
    \/ \E v \in NonDicts \cup DefectDicts : Decode(v)
    \/ \E v \in PointDicts \cup LineDicts \cup PolygonDicts : Decode(v)
    \/ \E v \in MultiPointDicts \cup MultiLineDicts \cup MultiPolygonDicts : Decode(v)
    \/ \E v \in CollectionDicts : Decode(v)
    \/ \E s \in PointShapes \cup LineShapes \cup PolygonShapes : Construct(s)
    \/ \E s \in MultiPointShapes \cup MultiLineShapes \cup MultiPolygonShapes : Construct(s)
    \/ \E s \in CollectionShapes \cup EmptyShapes \cup RingShapes : Construct(s)
    \/ Encode
    \/ Redecode
    \/ Str
    \/ Serialize
    \/ GeometrySchema
    \/ \E a \in ArgLists : Construct1(a)
    \/ \E a \in ArgLists2 : Construct2(a)
    \/ Compare
    \/ EmitSchema
    \/ EmitBoth
    \/ \E s \in KindShapes, i \in Infos : Validate(s, i)
    \/ \E s \in SourceTypes : Attach(s)
    \/ \E v \in FieldValues, i \in Infos : FieldDecode(v, i)
    \/ FieldValidate

Spec == Init /\ [][Next]_vars

\* ---------------------------------------------------------------- claims

\* the seven GeoJSON geometry kinds
SevenKinds ==
    { "Point", "LineString", "Polygon", "MultiPoint", "MultiLineString",
      "MultiPolygon", "GeometryCollection" }

\* from_geo_json has been called on value
DecodeCalled == pc \in {"decoded", "decode_failed"} /\ out # PyNone

\* value is a dict whose "type" is missing or is none of the seven names
TypeUnrecognized ==
    /\ value.py = "dict"
    /\ \/ "type" \notin DOMAIN value.d
       \/ value.d.type.py # "str"
       \/ value.d.type.s \notin SevenKinds

\* C1: decode fails with a TypeError on every value that is no dict, and
\* with a ValueError on every dict whose "type" is missing or is none of the
\* seven names; in either case no Geometry is returned.
C1_DecodeRejectsByClass ==
    DecodeCalled =>
        /\ value.py # "dict" => out.exc = "TypeError" /\ pc = "decode_failed" /\ g = PyNone
        /\ TypeUnrecognized => out.exc = "ValueError" /\ pc = "decode_failed" /\ g = PyNone

C1_Witness ==
    /\ pc = "decode_failed"
    /\ value = GeoJson("Triangle", PyList1(Origin))
    /\ out.exc = "ValueError"

ArgsRejected ==
    \/ args = <<>>
    \/ \E i \in DOMAIN args : args[i] \notin SevenKinds
    \/ \E i, j \in DOMAIN args : i # j /\ args[i] = args[j]

\* the allowed set of a constraint is non-empty, duplicate-free and within
\* the seven kinds
WellFormed(c) ==
    /\ c.allowed_types # <<>>
    /\ \A i, j \in DOMAIN c.allowed_types :
          i # j => c.allowed_types[i] # c.allowed_types[j]
    /\ \A i \in DOMAIN c.allowed_types : c.allowed_types[i] \in SevenKinds

\* C3: constructing a constraint raises ValueError and makes no object
\* exactly when the names are empty, not all among the seven kinds, or
\* repeated; every constraint that exists is well formed.
C3_ConstructionRejects ==
    /\ pc \in {"c1", "c1_failed", "c2", "c2_failed"} =>
          /\ ArgsRejected <=> out.exc = "ValueError"
          /\ ~ArgsRejected <=> out.exc = "none"
          /\ ArgsRejected <=> pc \in {"c1_failed", "c2_failed"}
          /\ pc = "c1_failed" => c1 = PyNone
          /\ pc = "c2_failed" => c2 = PyNone
          /\ ~ArgsRejected => Range(out.ret.allowed_types) = Range(args)
    /\ c1 # PyNone => WellFormed(c1)
    /\ c2 # PyNone => WellFormed(c2)

C3_Witness ==
    /\ pc = "c2_failed"
    /\ args = <<"Point", "Point">>
    /\ out.exc = "ValueError"
    /\ c2 = PyNone

\* t is in ascending order of str
Ascending(t) == \A i, j \in DOMAIN t : i < j => StrLess(t[i], t[j])

\* c1 and c2 both exist and allow the same set of kinds
SameKinds ==
    /\ pc \in {"c2", "compared", "emitted_both"}
    /\ Range(c1.allowed_types) = Range(c2.allowed_types)

\* C4 as stated: two constraints built from the same set of kinds have the
\* same sorted allowed_types, compare equal, and emit identical JSON Schema.
C4_AsStated ==
    SameKinds =>
        /\ c1.allowed_types = c2.allowed_types
        /\ Ascending(c1.allowed_types)
        /\ pc = "compared" => out.ret = TRUE
        /\ pc = "emitted_both" => schema = schema2

\* C4 amended: two constraints built from the same set of kinds have equal
\* allowed_types, the sorted tuple, and emit identical JSON Schema; the two
\* objects themselves compare by identity, so they are not equal.
C4_Canonical ==
    SameKinds =>
        /\ c1.allowed_types = c2.allowed_types
        /\ Ascending(c1.allowed_types)
        /\ pc = "compared" => out.ret = FALSE
        /\ pc = "emitted_both" => schema = schema2

C4_Witness ==
    /\ pc = "emitted_both"
    /\ args = <<"Polygon", "Point">>
    /\ c1.allowed_types = <<"Point", "Polygon">>
    /\ c2.allowed_types = <<"Point", "Polygon">>
    /\ schema = schema2

\* the loc_prefix of the validation context, empty when there is none
PrefixOfInfo ==
    IF /\ info.context.py = "dict"
       /\ "loc_prefix" \in DOMAIN info.context.d
    THEN info.context.d.loc_prefix
    ELSE <<>>

\* C5: validate returns without raising exactly when the kind of the value
\* is among the allowed kinds; otherwise it raises a validation error with
\* one entry, located at loc_prefix followed by "value", whose message
\* names the kind and the whole allowed tuple.
C5_ValidateKind ==
    pc = "validated" =>
        /\ g.geom.geom_type \in Range(c1.allowed_types) <=> out.exc = "none"
        /\ out.exc # "none" =>
              /\ out.exc = "ValidationError"
              /\ Len(out.msg.line_errors) = 1
              /\ out.msg.line_errors[1].loc = PrefixOfInfo \o <<"value">>
              /\ out.msg.line_errors[1].ctx.error.geometry_type = g.geom.geom_type
              /\ out.msg.line_errors[1].ctx.error.allowed = c1.allowed_types

C5_Witness ==
    /\ pc = "validated"
    /\ c1.allowed_types = <<"MultiPoint", "Point">>
    /\ g.geom.geom_type = "LineString"
    /\ info.context = PyDict([loc_prefix |-> <<"geometry">>])
    /\ out.exc = "ValidationError"

\* s is the JSON Schema fragment of kind k
IsFragmentOf(s, k) ==
    /\ "oneOf" \notin DOMAIN s
    /\ s.type = "object"
    /\ s.properties.type.const = k
    /\ s = GEOMETRY_JSON_SCHEMA[k]

\* s is {"oneOf": ...} over the fragments of exactly the kinds in ks, one each
IsUnionOf(s, ks) ==
    /\ DOMAIN s = {"oneOf"}
    /\ Len(s.oneOf) = Cardinality(ks)
    /\ \A k \in ks : \E i \in DOMAIN s.oneOf : IsFragmentOf(s.oneOf[i], k)
    /\ \A i \in DOMAIN s.oneOf : \E k \in ks : IsFragmentOf(s.oneOf[i], k)

\* C6: a constraint allowing one kind emits that kind's fragment with no
\* oneOf; one allowing n >= 2 kinds emits oneOf over exactly their n
\* fragments; Geometry alone emits oneOf over the fragments of all seven.
C6_SchemaEmission ==
    /\ pc = "emitted" /\ Len(c1.allowed_types) = 1 =>
          IsFragmentOf(schema, c1.allowed_types[1])
    /\ pc = "emitted" /\ Len(c1.allowed_types) >= 2 =>
          IsUnionOf(schema, Range(c1.allowed_types))
    /\ pc = "emitted_geometry" => IsUnionOf(schema, SevenKinds)

C6_Witness ==
    /\ pc = "emitted"
    /\ c1.allowed_types = <<"MultiPolygon", "Polygon">>
    /\ "oneOf" \in DOMAIN schema
    /\ Len(schema.oneOf) = 2

\* C7: the serializer Geometry registers never raises and returns what
\* to_geo_json returns for the same value.
C7_SerializerEncodes ==
    pc = "serialized" => out.exc = "none" /\ out.ret = enc

\* C8: str(g) returns a string, without raising, for every Geometry g.
C8_StrRenders ==
    pc = "rendered" => out.exc = "none" /\ out.ret.py = "str"

\* C9: a constraint attaches only to a usage site whose type is Geometry or
\* a subclass, and fails with an error otherwise before anything is
\* validated; on a field, validate runs only after the decode succeeded, so
\* a value that fails to decode is rejected with "invalid geometry value"
\* and validate is never run on it.
C9_ValidateOnlyGeometry ==
    /\ pc = "attach_failed" =>
          /\ source \notin {"Geometry", "GeometrySubclass"}
          /\ out.exc = "TypeError"
          /\ steps = <<>>
    /\ pc \in {"attached", "field_decoded", "field_accepted", "field_rejected"} =>
          source \in {"Geometry", "GeometrySubclass"}
    /\ steps # <<>> => steps[1] = "validator"
    /\ "validate" \in Range(steps) =>
          /\ steps = <<"validator", "validate">>
          /\ g.py = "Geometry"
          /\ from_geo_json(value).exc = "none"
    /\ (steps # <<>> /\ from_geo_json(value).exc # "none") =>
          /\ steps = <<"validator">>
          /\ pc = "field_rejected"
          /\ out.exc = "ValidationError"
          /\ out.msg.line_errors[1].ctx.error.text = "invalid geometry value"

C9_Witness ==
    /\ pc = "field_rejected"
    /\ steps = <<"validator">>
    /\ value = GeoJson("Triangle", PyList1(Origin))
    /\ out.msg.line_errors[1].ctx.error.text = "invalid geometry value"

\* the six kinds that are no collection
SixKinds == SevenKinds \ {"GeometryCollection"}

\* C10: the GeometryCollection fragment is an object requiring "type" and
\* "geometries", whose "geometries" is an array with items a oneOf of
\* exactly the six non-collection fragments; "bbox" is optional, an array
\* of at least 4 numbers.
C10_CollectionFragment ==
    (pc = "emitted" /\ c1.allowed_types = <<"GeometryCollection">>) =>
        /\ schema.type = "object"
        /\ Range(schema.required) = {"type", "geometries"}
        /\ schema.properties.type.const = "GeometryCollection"
        /\ schema.properties.bbox = [type |-> "array", minItems |-> 4,
                                     items |-> [type |-> "number"]]
        /\ "type" \in DOMAIN schema.properties.geometries
        /\ schema.properties.geometries.type = "array"
        /\ "items" \in DOMAIN schema.properties.geometries
        /\ IsUnionOf(schema.properties.geometries.items, SixKinds)

====
